---- MODULE Spec2Model ----
(***************************************************************************)
(* Snowball engine (snowballing.py), write-behind paper store              *)
(* (storage/json_storage.py) and duplicate predicate (paper_utils.py).     *)
(*                                                                         *)
(* Encoding of Python values:                                              *)
(*   None of an Optional[str] field  -> Null                               *)
(*   None of an Optional[int] field  -> NoneInt                            *)
(*   a title                         -> the sequence of its whitespace-    *)
(*                                      separated words (<<>> is "")       *)
(*   an author name                  -> the sequence of its words, a comma *)
(*                                      being a word of its own            *)
(*   an arXiv id                     -> the sequence of its characters     *)
(*                                      (<<>> is None or "")               *)
(***************************************************************************)
EXTENDS Integers, Sequences, FiniteSets, TLC

\* ------------------------------------------------------------------ bounds
MaxSeeds == 1
MaxIter == 2
MaxResp == 2
MaxQueue == 2
MaxStat == 2
MaxReviews == 2

\* ------------------------------------------------------- Python primitives
Null == "null"
NoneInt == -1

\* bool(s) of an Optional[str]
TruthyStr(s) == s /= Null /\ s /= ""
\* bool(n) of an Optional[int]
TruthyInt(n) == n /= NoneInt /\ n /= 0

\* str.lower() on the words, identifiers and characters the model uses
Lower(s) ==
  CASE s = "Deep" -> "deep"
    [] s = "Nets" -> "nets"
    [] s = "The" -> "the"
    [] s = "Smith" -> "smith"
    [] s = "Lee" -> "lee"
    [] s = "10.1/A" -> "10.1/a"
    [] s = "V" -> "v"
    [] OTHER -> s

LowerSeq(q) == [i \in DOMAIN q |-> Lower(q[i])]

SeqToSet(q) == {q[i] : i \in DOMAIN q}

Abs(n) == IF n < 0 THEN -n ELSE n

\* ------------------------------------------------------ paper_utils.py
TITLE_STOPWORDS ==
  {"a", "an", "the", "of", "in", "on", "for", "to", "and", "or", "with", "by",
   "at", "from"}

TitleThresholdPct == 85
AuthorThresholdPct == 30
YearTolerance == 1

\* set(title.lower().split()) - TITLE_STOPWORDS
TitleWords(t) == SeqToSet(LowerSeq(t)) \ TITLE_STOPWORDS

\* title_similarity(t1, t2) >= pct / 100
TitleSimAtLeast(t1, t2, pct) ==
  IF t1 = <<>> \/ t2 = <<>> THEN pct <= 0
  ELSE LET w1 == TitleWords(t1)
           w2 == TitleWords(t2)
       IN IF w1 = {} \/ w2 = {} THEN pct <= 0
          ELSE 100 * Cardinality(w1 \cap w2) >= pct * Cardinality(w1 \cup w2)

\* normalize_author_name: "Last, First" keeps what precedes the first comma,
\* any other name keeps its last word; the result is lower-cased
FirstIndexOf(q, x) ==
  IF \E i \in DOMAIN q : q[i] = x
  THEN CHOOSE i \in DOMAIN q : q[i] = x /\ \A j \in 1..(i - 1) : q[j] /= x
  ELSE 0

normalize_author_name(name) ==
  IF name = <<>> THEN <<>>
  ELSE IF FirstIndexOf(name, ",") > 0
       THEN LowerSeq(SubSeq(name, 1, FirstIndexOf(name, ",") - 1))
       ELSE <<Lower(name[Len(name)])>>

AuthorNames(authors) ==
  {normalize_author_name(authors[i]) : i \in DOMAIN authors} \ {<<>>}

\* authors_similarity(a1, a2) >= pct / 100
AuthorsSimAtLeast(a1, a2, pct) ==
  IF a1 = <<>> \/ a2 = <<>> THEN pct <= 0
  ELSE LET n1 == AuthorNames(a1)
           n2 == AuthorNames(a2)
       IN IF n1 = {} \/ n2 = {} THEN pct <= 0
          ELSE 100 * Cardinality(n1 \cap n2) >= pct * Cardinality(n1 \cup n2)

\* arxiv_id.lower().split('v')[0].rstrip('.')
RECURSIVE RStripDot(_)
RStripDot(q) ==
  IF q /= <<>> /\ q[Len(q)] = "." THEN RStripDot(SubSeq(q, 1, Len(q) - 1))
  ELSE q

ArxivNorm(a) ==
  LET l == LowerSeq(a)
      k == FirstIndexOf(l, "v")
  IN RStripDot(IF k = 0 THEN l ELSE SubSeq(l, 1, k - 1))

\* the fuzzy rule alone, for the mutants below
FuzzyDuplicates(p1, p2) ==
  IF p1.title = <<>> \/ p2.title = <<>> THEN FALSE
  ELSE IF ~TitleSimAtLeast(p1.title, p2.title, TitleThresholdPct) THEN FALSE
  ELSE IF TruthyInt(p1.year) /\ TruthyInt(p2.year)
          /\ Abs(p1.year - p2.year) > YearTolerance THEN FALSE
  ELSE IF p1.authors /= <<>> /\ p2.authors /= <<>>
          /\ ~AuthorsSimAtLeast(p1.authors, p2.authors, AuthorThresholdPct)
  THEN FALSE
  ELSE TRUE

\* a predicate that consults the arXiv ids before the DOIs
papers_are_duplicates_arxiv_first(p1, p2) ==
  IF p1.arxiv_id /= <<>> /\ p2.arxiv_id /= <<>>
  THEN ArxivNorm(p1.arxiv_id) = ArxivNorm(p2.arxiv_id)
  ELSE IF TruthyStr(p1.doi) /\ TruthyStr(p2.doi)
  THEN Lower(p1.doi) = Lower(p2.doi)
  ELSE FuzzyDuplicates(p1, p2)

\* a predicate whose year check forgets the absolute value
papers_are_duplicates_signed_year(p1, p2) ==
  IF TruthyStr(p1.doi) /\ TruthyStr(p2.doi)
  THEN Lower(p1.doi) = Lower(p2.doi)
  ELSE IF p1.arxiv_id /= <<>> /\ p2.arxiv_id /= <<>>
  THEN ArxivNorm(p1.arxiv_id) = ArxivNorm(p2.arxiv_id)
  ELSE IF p1.title = <<>> \/ p2.title = <<>> THEN FALSE
  ELSE IF ~TitleSimAtLeast(p1.title, p2.title, TitleThresholdPct) THEN FALSE
  ELSE IF TruthyInt(p1.year) /\ TruthyInt(p2.year)
          /\ p1.year - p2.year > YearTolerance THEN FALSE
  ELSE IF p1.authors /= <<>> /\ p2.authors /= <<>>
          /\ ~AuthorsSimAtLeast(p1.authors, p2.authors, AuthorThresholdPct)
  THEN FALSE
  ELSE TRUE

\* a predicate that rejects a pair when only one paper has authors
papers_are_duplicates_authors_required(p1, p2) ==
  IF TruthyStr(p1.doi) /\ TruthyStr(p2.doi)
  THEN Lower(p1.doi) = Lower(p2.doi)
  ELSE IF p1.arxiv_id /= <<>> /\ p2.arxiv_id /= <<>>
  THEN ArxivNorm(p1.arxiv_id) = ArxivNorm(p2.arxiv_id)
  ELSE IF (p1.authors = <<>>) /= (p2.authors = <<>>) THEN FALSE
  ELSE FuzzyDuplicates(p1, p2)

papers_are_duplicates(p1, p2) ==
  IF TruthyStr(p1.doi) /\ TruthyStr(p2.doi)
  THEN Lower(p1.doi) = Lower(p2.doi)
  ELSE IF p1.arxiv_id /= <<>> /\ p2.arxiv_id /= <<>>
  THEN ArxivNorm(p1.arxiv_id) = ArxivNorm(p2.arxiv_id)
  ELSE IF p1.title = <<>> \/ p2.title = <<>> THEN FALSE
  ELSE IF ~TitleSimAtLeast(p1.title, p2.title, TitleThresholdPct) THEN FALSE
  ELSE IF TruthyInt(p1.year) /\ TruthyInt(p2.year)
          /\ Abs(p1.year - p2.year) > YearTolerance THEN FALSE
  ELSE IF p1.authors /= <<>> /\ p2.authors /= <<>>
          /\ ~AuthorsSimAtLeast(p1.authors, p2.authors, AuthorThresholdPct)
  THEN FALSE
  ELSE TRUE

\* ------------------------------------------------------------ models.py
PENDING == "pending"
INCLUDED == "included"
EXCLUDED == "excluded"
MAYBE == "maybe"
PaperStatus == {PENDING, INCLUDED, EXCLUDED, MAYBE}

SEED == "seed"
BACKWARD == "backward"
FORWARD == "forward"

AUTO == "auto"
MANUAL == "manual"

\* the fields pydantic declares for models.Paper; the model keeps the
\* fields of the first list and leaves the others out of the record
PaperFields ==
  {"id", "doi", "arxiv_id", "title", "authors", "year", "abstract",
   "citation_count", "status", "source", "source_paper_ids",
   "snowball_iteration", "exclusion_type", "observation_count"}
  \cup {"pmid", "semantic_scholar_id", "openalex_id", "venue",
        "influential_citation_count", "references", "citations", "notes",
        "review_date", "tags", "pdf_path", "references_unavailable",
        "raw_data"}

\* BaseModel.__setattr__: assigning a name that is no declared field raises
\* ValueError (Paper.Config sets no extra="allow")
SetAttrRaises(name) == name \notin PaperFields

\* Paper(...) as an API client or the PDF parser builds it: t gives the
\* bibliographic fields, every review field takes its default
NewPaper(id, t, source) ==
  [id |-> id, doi |-> t.doi, arxiv_id |-> t.arxiv_id, title |-> t.title,
   authors |-> t.authors, year |-> t.year, abstract |-> t.abstract,
   citation_count |-> t.citation_count, status |-> PENDING,
   exclusion_type |-> Null, source |-> source, source_paper_ids |-> <<>>,
   snowball_iteration |-> 0, observation_count |-> 1]

\* statistics that count one discovery too many
NewIterationStatsMiscount(discovered, backward, forward, auto_excluded, for_review) ==
  [discovered |-> discovered + 1, backward |-> backward, forward |-> forward,
   auto_excluded |-> auto_excluded, for_review |-> for_review,
   manual_included |-> 0, manual_excluded |-> 0, manual_maybe |-> 0,
   reviewed |-> 0]

\* IterationStats(...)
NewIterationStats(discovered, backward, forward, auto_excluded, for_review) ==
  [discovered |-> discovered, backward |-> backward, forward |-> forward,
   auto_excluded |-> auto_excluded, for_review |-> for_review,
   manual_included |-> 0, manual_excluded |-> 0, manual_maybe |-> 0,
   reviewed |-> 0]

\* ReviewProject(name=...)
NewProject ==
  [seed_paper_ids |-> <<>>, current_iteration |-> 0, iteration_stats |-> <<>>]

\* ------------------------------------------------- external collaborators
Bib(doi, arxiv, title, authors, year, abstract, cc) ==
  [doi |-> doi, arxiv_id |-> arxiv, title |-> title, authors |-> authors,
   year |-> year, abstract |-> abstract, citation_count |-> cc]

\* what search_by_doi / the PDF parser return for the first, second seed
SeedPool ==
  <<Bib("10.1/a", <<>>, <<"Deep", "Nets">>, << <<"John", "Smith">> >>,
        2021, Null, 0),
    Bib(Null, <<>>, <<"graph", "theory">>, <<>>, NoneInt, Null, NoneInt)>>

\* what get_references / get_citations can return: the first seed under
\* another spelling of its DOI; the first seed without DOI, under a title
\* that differs by a stopword; a later paper with the first seed's title; a
\* paper the store does not know
CandPool ==
  <<Bib("10.1/A", <<>>, <<"deep", "nets">>, << <<"Smith", ",", "J">> >>,
        2022, "abs", 5),
    Bib(Null, <<>>, <<"The", "Deep", "Nets">>, <<>>, 2020, Null, NoneInt),
    Bib(Null, <<>>, <<"deep", "nets">>, <<>>, 2030, Null, NoneInt),
    Bib("10.1/c", <<>>, <<"new", "paper">>, <<>>, 2019, Null, 1)>>

\* a provider call: it fails, or returns at most MaxResp candidates
RECURSIVE SeqsUpTo(_, _)
SeqsUpTo(S, n) ==
  IF n = 0 THEN {<<>>}
  ELSE LET shorter == SeqsUpTo(S, n - 1)
       IN shorter \cup {Append(q, x) : q \in shorter, x \in S}

ProviderFails == <<0>>
Responses == SeqsUpTo(DOMAIN CandPool, MaxResp) \cup {ProviderFails}

\* FilterCriteria(min_year=...): the year bound of the project
MinYear == 2020

\* FilterEngine.apply_filters keeps a paper whose year is None or >= min_year
PassesFilter(p) == p.year = NoneInt \/ p.year >= MinYear

\* ------------------------------------------------------------------ state
VARIABLES
  project,        \* the caller's ReviewProject object
  projectFile,    \* project.json: <<>> or <<the record written>>
  cacheOn,        \* _papers_cache is not None
  cache,          \* _papers_cache.values(), in dict (insertion) order
  queue,          \* _write_queue
  disk,           \* papers/<id>.json: id -> the record written
  shutdown_flag,  \* _shutdown_flag
  wpc,            \* position of the writer thread in _writer_loop
  pc,             \* position of the caller's thread
  run,            \* locals of the run_snowball_iteration in progress
  nextId,         \* the next fresh paper id (uuid4)
  saved,          \* history: id -> the value last passed to save_paper
  merges,         \* history: id -> number of merges into that paper
  reviews,        \* history: number of review decisions made so far
  lastOp,         \* history: the last operation of the caller and its result
  killed,         \* the process has been killed (SpecCrash)
  landed,         \* history: id -> the record last written completely
                  \* (SpecCrash)
  cmp,            \* the two papers compared and the answer (SpecDup)
  rev             \* locals of the update_paper_review in progress, and
                  \* history: every value passed to save_paper (SpecRace)

vars ==
  <<project, projectFile, cacheOn, cache, queue, disk, shutdown_flag, wpc, pc,
    run, nextId, saved, merges, reviews, lastOp, killed, landed, cmp, rev>>

\* what the operations of the engine and the store leave alone
aside == <<killed, landed, cmp, rev>>

\* ------------------------------------------------- storage/json_storage.py
\* The cache, the queue and the save history, threaded through a handler.
Store == [cacheOn |-> cacheOn, cache |-> cache, queue |-> queue, saved |-> saved]

SetStore(st) ==
  /\ cacheOn' = st.cacheOn
  /\ cache' = st.cache
  /\ queue' = st.queue
  /\ saved' = st.saved

CacheHas(c, id) == \E i \in DOMAIN c : c[i].id = id
CacheIdx(c, id) == CHOOSE i \in DOMAIN c : c[i].id = id
CacheGet(c, id) == c[CacheIdx(c, id)]
\* _papers_cache[paper.id] = paper
CachePut(c, p) ==
  IF CacheHas(c, p.id) THEN [c EXCEPT ![CacheIdx(c, p.id)] = p]
  ELSE Append(c, p)

\* A queue entry is a reference to a Paper object. With the cache on, the
\* object saved is the one the cache holds for that id (alias): the writer
\* dumps whatever that object holds when it gets to it. With the cache off the
\* object is held by nobody else, and the entry carries its value.
QueueEntry(st, p) ==
  IF st.cacheOn THEN [alias |-> TRUE, id |-> p.id, snap |-> <<>>]
  ELSE [alias |-> FALSE, id |-> p.id, snap |-> <<p>>]

save_paper(st, p) ==
  [st EXCEPT !.cache = IF st.cacheOn THEN CachePut(@, p) ELSE @,
             !.queue = Append(@, QueueEntry(st, p)),
             !.saved = (p.id :> p) @@ @]

\* load_paper: the result is <<>> for None, <<paper>> otherwise
load_paper(st, dsk, id) ==
  IF st.cacheOn /\ CacheHas(st.cache, id)
  THEN [st |-> st, res |-> <<CacheGet(st.cache, id)>>]
  ELSE IF id \notin DOMAIN dsk THEN [st |-> st, res |-> <<>>]
  ELSE [st |-> IF st.cacheOn THEN [st EXCEPT !.cache = Append(@, dsk[id])]
               ELSE st,
        res |-> <<dsk[id]>>]

\* papers_dir.glob("*.json"): the files in an order the file system chooses
GlobOrders(dsk) ==
  LET n == Cardinality(DOMAIN dsk)
  IN {f \in [1..n -> DOMAIN dsk] : \A i, j \in 1..n : f[i] = f[j] => i = j}

\* load_all_papers: the first call fills the cache from the files
load_all_papers(st, dsk) ==
  IF st.cacheOn THEN {st}
  ELSE {[st EXCEPT !.cacheOn = TRUE,
                   !.cache = [i \in DOMAIN f |-> dsk[f[i]]]] :
          f \in GlobOrders(dsk)}

\* find_duplicate_paper: index in the cache of the first duplicate, 0 for None
find_duplicate_paper(c, p) ==
  IF \E i \in DOMAIN c : papers_are_duplicates(p, c[i])
  THEN CHOOSE i \in DOMAIN c :
         /\ papers_are_duplicates(p, c[i])
         /\ \A j \in 1..(i - 1) : ~papers_are_duplicates(p, c[j])
  ELSE 0

\* _write_paper_to_disk
WriteToDisk(dsk, p) == (p.id :> p) @@ dsk

\* the object a queue entry refers to, as it is now
EntryPaper(e) == IF e.alias THEN CacheGet(cache, e.id) ELSE e.snap[1]

\* a join that does not wait for the writer
JoinReturnsAtOnce(q) == TRUE

\* queue.join() returns once every put has been matched by a task_done
JoinReturns(q) == Len(q) = 0

\* JSONStorage(project_dir): a new instance on a directory
FreshStore == [cacheOn |-> FALSE, cache |-> <<>>, queue |-> <<>>, saved |-> <<>>]

\* ------------------------------------------------------------- history
\* lastOp: "flush" right after a flush() returned, "run" right after a
\* run_snowball_iteration returned its summary (with what the run was given
\* and what it returned), "seed" right after a seed addition returned (seed:
\* the id of the paper returned, 0 for None), "none" after anything else
NoOp ==
  [op |-> "none", iter |-> 0, added |-> 0, backward |-> 0, forward |-> 0,
   auto_excluded |-> 0, for_review |-> 0, merged |-> <<>>,
   discovered |-> <<>>, frontier |-> <<>>, retTwice |-> {}, seed |-> 0]

NoRun ==
  [direction |-> "none", frontier |-> <<>>, idx |-> 0, stage |-> "none",
   next_iter |-> 0, seenDoi |-> {}, seenTitle |-> {}, discovered |-> <<>>,
   merged |-> <<>>, backward_count |-> 0, forward_count |-> 0, log |-> {},
   doisBefore |-> {}, retOnce |-> {}, retTwice |-> {}, failed |-> 0]

\* no update_paper_review under way
NoRev == [id |-> 0, ever |-> {}]

\* no comparison under way
NoCmp == [a |-> <<>>, b |-> <<>>, res |-> <<>>]

\* a new project on a new store
InitEngine ==
  /\ project = NewProject
  /\ projectFile = <<>>
  /\ cacheOn = FALSE
  /\ cache = <<>>
  /\ queue = <<>>
  /\ disk = <<>>
  /\ shutdown_flag = FALSE
  /\ wpc = "get"
  /\ pc = "idle"
  /\ run = NoRun
  /\ nextId = 1
  /\ saved = <<>>
  /\ merges = <<>>
  /\ lastOp = NoOp
  /\ reviews = 0
  /\ killed = FALSE
  /\ landed = <<>>
  /\ rev = NoRev

Init == InitEngine /\ cmp = NoCmp

\* ------------------------------------------------------- the writer thread
\* _writer_loop. "get": the thread is in queue.get(timeout=0.1), having found
\* the flag clear; "stopped": it has found the flag set and left the loop.
\* After a write or a timeout the thread tests the flag at once.
AfterLoopTest == IF shutdown_flag THEN "stopped" ELSE "get"

\* paper = queue.get(timeout=0.1); _write_paper_to_disk(paper); task_done()
WriterWrite ==
  /\ wpc = "get"
  /\ queue /= <<>>
  /\ disk' = WriteToDisk(disk, EntryPaper(Head(queue)))
  /\ queue' = Tail(queue)
  /\ wpc' = AfterLoopTest
  /\ UNCHANGED <<reviews, project, projectFile, cacheOn, cache,
                 shutdown_flag, pc, run, nextId, saved, merges, lastOp>>
  /\ UNCHANGED aside

\* except queue.Empty: continue
WriterTimeout ==
  /\ wpc = "get"
  /\ queue = <<>>
  /\ wpc' = AfterLoopTest
  /\ UNCHANGED <<reviews, project, projectFile, cacheOn, cache, queue, disk,
                 shutdown_flag, pc, run, nextId, saved, merges, lastOp>>
  /\ UNCHANGED aside

\* flush(): returns when the queue has been drained
Flush ==
  /\ pc = "idle"
  /\ JoinReturns(queue)
  /\ lastOp' = [NoOp EXCEPT !.op = "flush"]
  /\ UNCHANGED <<reviews, project, projectFile, cacheOn, cache, queue, disk,
                 shutdown_flag, wpc, pc, run, nextId, saved, merges>>
  /\ UNCHANGED aside

\* shutdown(): flush(), then set the flag
Shutdown ==
  /\ pc = "idle"
  /\ JoinReturns(queue)
  /\ shutdown_flag' = TRUE
  /\ lastOp' = NoOp
  /\ UNCHANGED <<reviews, project, projectFile, cacheOn, cache, queue, disk,
                 wpc, pc, run, nextId, saved, merges>>
  /\ UNCHANGED aside

\* ------------------------------------------------------------ snowballing.py
KnownIds == 1..(nextId - 1)

\* storage.save_project(project)
save_project(proj) == <<proj>>

\* a seed list that takes the id whether or not it holds it, and twice
AppendSeedTwice(ids, id) == ids \o <<id, id>>

\* lines 74-75 / 109-110: if paper.id not in project.seed_paper_ids: append
AppendSeed(ids, id) == IF id \in SeqToSet(ids) THEN ids ELSE Append(ids, id)

\* add_seed_from_doi when search_by_doi finds SeedPool[k]; add_seed_from_pdf
\* when the parser extracts it
AddSeed(k) ==
  /\ pc = "idle"
  /\ Len(project.seed_paper_ids) < MaxSeeds
  /\ k = Len(project.seed_paper_ids) + 1
  /\ LET p == [NewPaper(nextId, SeedPool[k], SEED) EXCEPT
                 !.snowball_iteration = 0]
         st == save_paper(Store, p)
     IN /\ Len(st.queue) <= MaxQueue
        /\ SetStore(st)
        /\ project' =
             [project EXCEPT !.seed_paper_ids = AppendSeed(@, p.id)]
        /\ projectFile' = save_project(project')
        /\ nextId' = nextId + 1
        /\ lastOp' = [NoOp EXCEPT !.op = "seed", !.seed = p.id]
  /\ UNCHANGED <<reviews, disk, shutdown_flag, wpc, pc, run, merges>>
  /\ UNCHANGED aside

\* add_seed_from_pdf without a title, add_seed_from_doi without a match
AddSeedFails ==
  /\ pc = "idle"
  /\ lastOp' = [NoOp EXCEPT !.op = "seed"]
  /\ UNCHANGED <<reviews, project, projectFile, cacheOn, cache, queue, disk,
                 shutdown_flag, wpc, pc, run, nextId, saved, merges>>
  /\ UNCHANGED aside

\* [self.storage.load_paper(paper_id) for paper_id in project.seed_paper_ids]
RECURSIVE LoadSeeds(_, _, _)
LoadSeeds(st, dsk, ids) ==
  IF ids = <<>> THEN [st |-> st, res |-> <<>>]
  ELSE LET one == load_paper(st, dsk, Head(ids))
           rest == LoadSeeds(one.st, dsk, Tail(ids))
       IN [st |-> rest.st, res |-> <<one.res>> \o rest.res]

\* lines 157-160: a source paper that is not INCLUDED is made so and saved
RECURSIVE Promote(_, _)
Promote(st, papers) ==
  IF papers = <<>> THEN st
  ELSE LET p == Head(papers)
       IN IF p.status /= INCLUDED
          THEN Promote(save_paper(st, [p EXCEPT !.status = INCLUDED]),
                       Tail(papers))
          ELSE Promote(st, Tail(papers))

\* a run that forgets to advance the generation
NextIterSame(current_iter) == current_iter

\* line 133
NextIter(current_iter) == current_iter + 1

\* run_snowball_iteration, lines 132-160: the source papers
RunSelect(direction) ==
  /\ pc = "idle"
  /\ project.current_iteration < MaxIter
  /\ LET cur == project.current_iteration
     IN IF cur = 0
        THEN LET loaded == LoadSeeds(Store, disk, project.seed_paper_ids)
                 NotExcluded(r) == r[1].status /= EXCLUDED
                 source == SelectSeq(loaded.res, NotExcluded)
                 papers == [i \in DOMAIN source |-> source[i][1]]
                 st == Promote(loaded.st, papers)
             IN IF \E i \in DOMAIN loaded.res : loaded.res[i] = <<>>
                THEN \* p.status of None: AttributeError leaves the call
                     /\ SetStore(loaded.st)
                     /\ lastOp' = NoOp
                     /\ UNCHANGED <<pc, run>>
                ELSE IF papers = <<>>
                THEN /\ SetStore(loaded.st)
                     /\ lastOp' = NoOp
                     /\ UNCHANGED <<pc, run>>
                ELSE /\ Len(st.queue) <= MaxQueue
                     /\ SetStore(st)
                     /\ pc' = "index"
                     /\ run' = [NoRun EXCEPT
                                  !.direction = direction,
                                  !.frontier =
                                    [i \in DOMAIN papers |-> papers[i].id],
                                  !.next_iter = NextIter(cur)]
                     /\ lastOp' = NoOp
        ELSE \E st0 \in load_all_papers(Store, disk) :
               LET IsSource(p) ==
                     p.snowball_iteration = cur /\ p.status = INCLUDED
                   papers == SelectSeq(st0.cache, IsSource)
               IN IF papers = <<>>
                  THEN /\ SetStore(st0)
                       /\ lastOp' = NoOp
                       /\ UNCHANGED <<pc, run>>
                  ELSE /\ SetStore(Promote(st0, papers))
                       /\ pc' = "index"
                       /\ run' = [NoRun EXCEPT
                                    !.direction = direction,
                                    !.frontier =
                                      [i \in DOMAIN papers |-> papers[i].id],
                                    !.next_iter = NextIter(cur)]
                       /\ lastOp' = NoOp
  /\ UNCHANGED <<reviews, project, projectFile, disk, shutdown_flag, wpc,
                 nextId, merges>>
  /\ UNCHANGED aside

FirstStage(direction) ==
  IF direction \in {"backward", "both"} THEN "backward" ELSE "forward"

\* lines 162-176: the identifiers of every paper load_all_papers returns
RunIndex ==
  /\ pc = "index"
  /\ \E st \in load_all_papers(Store, disk) :
       LET dois == {Lower(st.cache[i].doi) :
                      i \in {j \in DOMAIN st.cache : TruthyStr(st.cache[j].doi)}}
           titles == {LowerSeq(st.cache[i].title) :
                        i \in {j \in DOMAIN st.cache : st.cache[j].title /= <<>>}}
       IN /\ SetStore(st)
          /\ run' = [run EXCEPT !.seenDoi = dois, !.seenTitle = titles,
                                !.doisBefore = dois, !.idx = 1,
                                !.stage = FirstStage(run.direction)]
  /\ pc' = "expand"
  /\ UNCHANGED <<reviews, project, projectFile, disk, shutdown_flag, wpc,
                 nextId, merges, lastOp>>
  /\ UNCHANGED aside

\* _is_new_paper
IsNewPaper(p, seenDoi, seenTitle) ==
  IF TruthyStr(p.doi) /\ Lower(p.doi) \in seenDoi THEN FALSE
  ELSE IF p.title /= <<>> /\ LowerSeq(p.title) \in seenTitle THEN FALSE
  ELSE TRUE

\* a merge that backfills but does not count the observation
MergeIntoUncounted(existing, paper) ==
  [existing EXCEPT
     !.doi = IF ~TruthyStr(@) /\ TruthyStr(paper.doi) THEN paper.doi ELSE @,
     !.abstract =
       IF ~TruthyStr(@) /\ TruthyStr(paper.abstract) THEN paper.abstract
       ELSE @,
     !.year = IF ~TruthyInt(@) /\ TruthyInt(paper.year) THEN paper.year ELSE @,
     !.citation_count =
       IF ~TruthyInt(@) /\ TruthyInt(paper.citation_count)
       THEN paper.citation_count ELSE @]

\* _find_and_merge_duplicate, lines 365-374: what the merge does to existing
MergeInto(existing, paper) ==
  [existing EXCEPT
     !.observation_count = @ + 1,
     !.doi = IF ~TruthyStr(@) /\ TruthyStr(paper.doi) THEN paper.doi ELSE @,
     !.abstract =
       IF ~TruthyStr(@) /\ TruthyStr(paper.abstract) THEN paper.abstract
       ELSE @,
     !.year = IF ~TruthyInt(@) /\ TruthyInt(paper.year) THEN paper.year ELSE @,
     !.citation_count =
       IF ~TruthyInt(@) /\ TruthyInt(paper.citation_count)
       THEN paper.citation_count ELSE @]

\* the attribute lines 194 and 219 assign the source paper's id to
SourceAttr == "source_paper_id"

StageSource(stage) == IF stage = "backward" THEN BACKWARD ELSE FORWARD

\* lines 193-195 / 218-220, for an assignment that does not raise: the
\* attribute is no field of the record, which keeps its source_paper_ids
StampCandidate(cand, stage, next_iter) ==
  [cand EXCEPT !.source = StageSource(stage), !.snowball_iteration = next_iter]

Bump(f, id) == (id :> (IF id \in DOMAIN f THEN f[id] + 1 ELSE 1)) @@ f

\* one pass of the loop body, lines 186-203 / 211-228, over candidate k.
\* L holds the locals of the run, the store and the history of this list
\* (log: for each candidate, whether the identifier index knew it, whether
\* the store held a duplicate, and what became of it; retOnce / retTwice: the
\* DOIs unknown before the run that the providers returned once / again);
\* L.raised says that an earlier candidate of this list raised, which ended
\* the loop (the except clause of line 204 / 229 follows it).
ProcessCandidate(L, k, stage, next_iter) ==
  LET cand == NewPaper(L.nextId, CandPool[k], StageSource(stage))
      isNew == IsNewPaper(cand, L.seenDoi, L.seenTitle)
      e == find_duplicate_paper(L.st.cache, cand)
      d == IF TruthyStr(cand.doi) THEN {Lower(cand.doi)} ELSE {}
      fresh == d \ L.doisBefore
      H == [L EXCEPT
              !.retTwice = @ \cup (fresh \cap L.retOnce),
              !.retOnce = @ \cup fresh]
      Logged(X, outcome) ==
        [X EXCEPT !.log = @ \cup {[indexed |-> ~isNew, dup |-> e /= 0,
                                   outcome |-> outcome]}]
      merged ==
        LET existing == MergeInto(L.st.cache[e], cand)
        IN Logged([H EXCEPT !.st = save_paper(@, existing),
                            !.merged = Append(@, existing.id),
                            !.merges = Bump(@, existing.id)], "merged")
      added ==
        LET stamped == StampCandidate(cand, stage, next_iter)
        IN Logged([H EXCEPT
                     !.discovered = Append(@, stamped),
                     !.seenDoi = @ \cup d,
                     !.seenTitle =
                       @ \cup (IF cand.title /= <<>>
                               THEN {LowerSeq(cand.title)} ELSE {}),
                     !.count = @ + 1,
                     !.nextId = @ + 1], "added")
  IN IF L.raised THEN Logged(H, "skipped")
     ELSE IF isNew
     THEN IF e /= 0 THEN merged
          ELSE IF SetAttrRaises(SourceAttr)
          THEN Logged([H EXCEPT !.raised = TRUE], "raised")
          ELSE added
     ELSE IF e /= 0 THEN merged
          ELSE Logged(H, "dropped")

RECURSIVE ProcessAll(_, _, _, _)
ProcessAll(L, resp, stage, next_iter) ==
  IF resp = <<>> THEN L
  ELSE ProcessAll(ProcessCandidate(L, Head(resp), stage, next_iter),
                  Tail(resp), stage, next_iter)

\* a failed backward call that also skips the forward call of that paper
PairAfterSkipsPaper(resp, direction, stage, idx) ==
  IF stage = "backward" /\ direction = "both" /\ resp /= ProviderFails
  THEN [idx |-> idx, stage |-> "forward"]
  ELSE [idx |-> idx + 1, stage |-> FirstStage(direction)]

\* lines 181-230: the (source paper, direction) pair that follows the one
\* answered with resp. Each direction has its own try / except inside the
\* loop over the source papers, so a call that raised is followed by the
\* same pair as one that returned.
PairAfter(resp, direction, stage, idx) ==
  IF stage = "backward" /\ direction = "both"
  THEN [idx |-> idx, stage |-> "forward"]
  ELSE [idx |-> idx + 1, stage |-> FirstStage(direction)]

\* lines 179-230, one (source paper, direction) pair: the references or the
\* citations of run.frontier[run.idx], as the provider answers with resp
\* (ProviderFails: the call raises, and the except clause of line 204 / 229
\* logs it; run.failed counts the calls of the run that raised)
RunExpand(resp) ==
  /\ pc = "expand"
  /\ LET stage == run.stage
         L0 == [st |-> Store, seenDoi |-> run.seenDoi,
                seenTitle |-> run.seenTitle, discovered |-> run.discovered,
                merged |-> run.merged,
                count |-> IF stage = "backward" THEN run.backward_count
                          ELSE run.forward_count,
                nextId |-> nextId, merges |-> merges, raised |-> FALSE,
                log |-> {}, retOnce |-> run.retOnce,
                retTwice |-> run.retTwice, doisBefore |-> run.doisBefore]
         L == IF resp = ProviderFails THEN L0
              ELSE ProcessAll(L0, resp, stage, run.next_iter)
         nxt == PairAfter(resp, run.direction, stage, run.idx)
         idx == nxt.idx
     IN /\ Len(L.st.queue) <= MaxQueue
        /\ SetStore(L.st)
        /\ nextId' = L.nextId
        /\ merges' = L.merges
        /\ run' = [run EXCEPT
                     !.seenDoi = L.seenDoi, !.seenTitle = L.seenTitle,
                     !.discovered = L.discovered, !.merged = L.merged,
                     !.backward_count =
                       IF stage = "backward" THEN L.count ELSE @,
                     !.forward_count =
                       IF stage = "forward" THEN L.count ELSE @,
                     !.log = L.log, !.retOnce = L.retOnce,
                     !.retTwice = L.retTwice,
                     !.failed = IF resp = ProviderFails THEN @ + 1 ELSE @,
                     !.idx = idx,
                     !.stage = nxt.stage]
        /\ pc' = IF idx > Len(run.frontier) THEN "filter" ELSE "expand"
  /\ UNCHANGED <<reviews, project, projectFile, disk, shutdown_flag, wpc,
                 lastOp>>
  /\ UNCHANGED aside

\* save_papers: save_paper for each, then the index file papers.json, which
\* no operation of the engine or the store reads back
RECURSIVE save_papers(_, _)
save_papers(st, papers) ==
  IF papers = <<>> THEN st
  ELSE save_papers(save_paper(st, Head(papers)), Tail(papers))

\* lines 235-277: filters, persistence, statistics
RunFilter ==
  /\ pc = "filter"
  /\ LET discovered == run.discovered
         filtered == SelectSeq(discovered, PassesFilter)
         auto_excluded == Len(discovered) - Len(filtered)
         marked ==
           [i \in DOMAIN discovered |->
              IF \E j \in DOMAIN filtered : filtered[j] = discovered[i]
              THEN discovered[i]
              ELSE [discovered[i] EXCEPT !.status = EXCLUDED,
                                         !.exclusion_type = AUTO]]
         st == save_papers(Store, marked)
         iter_stats ==
           NewIterationStats(Len(discovered), run.backward_count,
                             run.forward_count, auto_excluded, Len(filtered))
     IN /\ Len(st.queue) <= MaxQueue
        /\ SetStore(st)
        /\ project' =
             [project EXCEPT
                !.iteration_stats = (run.next_iter :> iter_stats) @@ @,
                !.current_iteration = run.next_iter]
        /\ projectFile' = save_project(project')
        /\ lastOp' =
             [NoOp EXCEPT
                !.op = "run", !.iter = project.current_iteration,
                !.added = Len(discovered),
                !.backward = run.backward_count,
                !.forward = run.forward_count,
                !.auto_excluded = auto_excluded,
                !.for_review = Len(filtered), !.merged = run.merged,
                !.discovered = [i \in DOMAIN marked |-> marked[i].id],
                !.frontier = run.frontier, !.retTwice = run.retTwice]
  /\ pc' = "idle"
  /\ run' = NoRun
  /\ UNCHANGED <<reviews, disk, shutdown_flag, wpc, nextId, merges>>
  /\ UNCHANGED aside

Max0(n) == IF n < 0 THEN 0 ELSE n

\* statistics that leave the reviewed tally alone
UpdateIterationReviewStatsUntallied(stats, paper, old_status, new_status) ==
  IF new_status = INCLUDED THEN [stats EXCEPT !.manual_included = @ + 1]
  ELSE stats

\* _update_iteration_review_stats; paper is the paper after the update
UpdateIterationReviewStats(stats, paper, old_status, new_status) ==
  LET s1 ==
        IF old_status = INCLUDED
        THEN [stats EXCEPT !.manual_included = Max0(@ - 1)]
        ELSE IF old_status = EXCLUDED /\ paper.exclusion_type = MANUAL
        THEN [stats EXCEPT !.manual_excluded = Max0(@ - 1)]
        ELSE IF old_status = MAYBE
        THEN [stats EXCEPT !.manual_maybe = Max0(@ - 1)]
        ELSE stats
      s2 ==
        IF new_status = INCLUDED THEN [s1 EXCEPT !.manual_included = @ + 1]
        ELSE IF new_status = EXCLUDED
        THEN IF paper.exclusion_type /= AUTO
             THEN [s1 EXCEPT !.manual_excluded = @ + 1]
             ELSE s1
        ELSE IF new_status = MAYBE THEN [s1 EXCEPT !.manual_maybe = @ + 1]
        ELSE s1
  IN IF old_status = PENDING /\ new_status /= PENDING
     THEN [s2 EXCEPT !.reviewed = @ + 1]
     ELSE IF old_status /= PENDING /\ new_status = PENDING
     THEN [s2 EXCEPT !.reviewed = Max0(@ - 1)]
     ELSE s2

\* lines 424-435: what update_paper_review does to the paper
ReviewPaper(paper, status) ==
  LET p1 == [paper EXCEPT !.status = status]
      p2 == IF status = EXCLUDED /\ p1.exclusion_type /= AUTO
            THEN [p1 EXCEPT !.exclusion_type = MANUAL] ELSE p1
  IN IF status /= EXCLUDED THEN [p2 EXCEPT !.exclusion_type = Null] ELSE p2

StatsWithin(stats) ==
  /\ stats.manual_included <= MaxStat
  /\ stats.manual_excluded <= MaxStat
  /\ stats.manual_maybe <= MaxStat
  /\ stats.reviewed <= MaxStat

\* update_paper_review(paper_id, status, project=project or None)
UpdatePaperReview(id, status, withProject) ==
  /\ pc = "idle"
  /\ reviews < MaxReviews
  /\ reviews' = reviews + 1
  /\ LET loaded == load_paper(Store, disk, id)
     IN IF loaded.res = <<>>
        THEN /\ SetStore(loaded.st)
             /\ lastOp' = NoOp
             /\ UNCHANGED <<project, projectFile>>
        ELSE LET old == loaded.res[1]
                 paper == ReviewPaper(old, status)
                 st == save_paper(loaded.st, paper)
                 it == paper.snowball_iteration
             IN /\ Len(st.queue) <= MaxQueue
                /\ SetStore(st)
                /\ lastOp' = NoOp
                /\ IF withProject /\ it \in DOMAIN project.iteration_stats
                   THEN /\ project' =
                             [project EXCEPT !.iteration_stats[it] =
                                UpdateIterationReviewStats(
                                  @, paper, old.status, status)]
                        /\ StatsWithin(project'.iteration_stats[it])
                        /\ projectFile' = save_project(project')
                   ELSE UNCHANGED <<project, projectFile>>
  /\ UNCHANGED <<disk, shutdown_flag, wpc, pc, run, nextId, merges>>
  /\ UNCHANGED aside

\* JSONStorage.update_paper_status
UpdatePaperStatus(id, status) ==
  /\ pc = "idle"
  /\ reviews < MaxReviews
  /\ reviews' = reviews + 1
  /\ LET loaded == load_paper(Store, disk, id)
     IN IF loaded.res = <<>>
        THEN /\ SetStore(loaded.st)
             /\ lastOp' = NoOp
        ELSE LET st == save_paper(loaded.st,
                                  [loaded.res[1] EXCEPT !.status = status])
             IN /\ Len(st.queue) <= MaxQueue
                /\ SetStore(st)
                /\ lastOp' = NoOp
  /\ UNCHANGED <<project, projectFile, disk, shutdown_flag, wpc, pc, run,
                 nextId, merges>>
  /\ UNCHANGED aside

CountStatus(papers, status) ==
  Cardinality({i \in DOMAIN papers : papers[i].status = status})

\* should_continue_snowballing, on the papers load_all_papers returns
should_continue_snowballing(papers, proj) ==
  IF proj.current_iteration = 0 THEN Len(proj.seed_paper_ids) > 0
  ELSE \E i \in DOMAIN papers :
         /\ papers[i].snowball_iteration = proj.current_iteration
         /\ papers[i].status = INCLUDED

\* can_start_iteration, on the papers load_all_papers returns: ok, and the
\* counts the reason names ("<n> pending", "<n> maybe"; 0: not named)
can_start_iteration(papers, proj) ==
  LET pending_count == CountStatus(papers, PENDING)
      maybe_count == CountStatus(papers, MAYBE)
  IN IF pending_count + maybe_count > 0
     THEN [ok |-> FALSE, pending |-> pending_count, maybe |-> maybe_count]
     ELSE IF ~should_continue_snowballing(papers, proj)
     THEN [ok |-> FALSE, pending |-> 0, maybe |-> 0]
     ELSE [ok |-> TRUE, pending |-> 0, maybe |-> 0]

CanStartIteration ==
  /\ pc = "idle"
  /\ \E st \in load_all_papers(Store, disk) :
       /\ SetStore(st)
       /\ lastOp' = NoOp
  /\ UNCHANGED <<reviews, project, projectFile, disk, shutdown_flag, wpc, pc,
                 run, nextId, merges>>
  /\ UNCHANGED aside

ShouldContinueSnowballing ==
  /\ pc = "idle"
  /\ \E st \in (IF project.current_iteration = 0 THEN {Store}
                ELSE load_all_papers(Store, disk)) :
       /\ SetStore(st)
       /\ lastOp' = NoOp
  /\ UNCHANGED <<reviews, project, projectFile, disk, shutdown_flag, wpc, pc,
                 run, nextId, merges>>
  /\ UNCHANGED aside

\* ------------------------------------------------------------ specification
Next ==
  \/ \E k \in DOMAIN SeedPool : AddSeed(k)
  \/ AddSeedFails
  \/ \E direction \in {"backward", "forward", "both"} : RunSelect(direction)
  \/ RunIndex
  \/ \E resp \in Responses : RunExpand(resp)
  \/ RunFilter
  \/ \E id \in KnownIds, status \in PaperStatus, withProject \in BOOLEAN :
       UpdatePaperReview(id, status, withProject)
  \/ \E id \in KnownIds, status \in PaperStatus : UpdatePaperStatus(id, status)
  \/ CanStartIteration
  \/ ShouldContinueSnowballing
  \/ Flush
  \/ Shutdown
  \/ WriterWrite
  \/ WriterTimeout

Spec == Init /\ [][Next]_vars

\* ------------------------------------------------------------------ claims
MergesOf(id) == IF id \in DOMAIN merges THEN merges[id] ELSE 0

\* C1. Iteration gate: whenever a paper saved to the store has status
\* PENDING, can_start_iteration returns False and its reason names the
\* pending papers, whatever the other papers' statuses.
C1_PendingBlocksIteration ==
  (pc = "idle" /\ \E id \in DOMAIN saved : saved[id].status = PENDING)
    => \A st \in load_all_papers(Store, disk) :
         LET r == can_start_iteration(st.cache, project)
         IN ~r.ok /\ r.pending >= 1

\* C2. Cache coherence: once save_paper(p) has returned, load_paper(p.id)
\* returns p and load_all_papers() contains p, whether or not the writer has
\* written p and whether or not the cache had been populated before the save.
C2_CacheCoherence ==
  \A id \in DOMAIN saved :
    /\ load_paper(Store, disk, id).res = <<saved[id]>>
    /\ \A st \in load_all_papers(Store, disk) :
         \E i \in DOMAIN st.cache : st.cache[i] = saved[id]

\* C3. Flush durability: when flush() returns, every paper saved before the
\* call is on disk: a fresh store on the same directory loads its id.
C3_FlushDurability ==
  lastOp.op = "flush"
    => \A id \in DOMAIN saved : load_paper(FreshStore, disk, id).res /= <<>>

\* C3 witness: a flush has returned after papers were saved
C3_FlushedAfterSaves ==
  /\ lastOp.op = "flush"
  /\ DOMAIN saved /= {}
  /\ \A id \in DOMAIN saved : id \in DOMAIN disk

\* C4. current_iteration never decreases; it changes only when a run over a
\* non-empty frontier completes, which raises it by exactly 1 and records
\* iteration_stats under the new value; every other step of every operation
\* (seed addition, review update, the gates, a run without source papers)
\* leaves it as it is.
C4_IterationAdvancesByOne ==
  [][/\ project'.current_iteration >= project.current_iteration
     /\ (pc = "filter" /\ pc' = "idle")
          => /\ project'.current_iteration = project.current_iteration + 1
             /\ project'.current_iteration \in DOMAIN project'.iteration_stats
     /\ ~(pc = "filter" /\ pc' = "idle")
          => project'.current_iteration = project.current_iteration]_vars

\* C4 witness: a run over a seed has returned and the project is at
\* generation 1, with its statistics
C4_RunAdvanced ==
  /\ lastOp.op = "run"
  /\ lastOp.iter = 0
  /\ lastOp.frontier /= <<>>
  /\ project.current_iteration = 1
  /\ 1 \in DOMAIN project.iteration_stats

\* C5. During a run, every candidate that matches the identifier index or
\* for which find_duplicate_paper finds a match is merged (counted on the
\* existing paper, persisted, reported in the merged list), and every other
\* candidate is added to the newly discovered papers.
C5_KnownMergedOthersAdded ==
  \A r \in run.log :
    IF r.indexed \/ r.dup THEN r.outcome = "merged" ELSE r.outcome = "added"

\* C6. When a run returns the same DOI twice and no stored paper had that
\* DOI before the run, exactly one paper with that DOI is persisted, added
\* counts it once, and the merged list holds it with the repeat counted.
C6_SameDoiTwiceInOneRun ==
  lastOp.op = "run"
    => \A d \in lastOp.retTwice :
         LET HasDoi(id) ==
               /\ id \in DOMAIN saved
               /\ TruthyStr(saved[id].doi)
               /\ Lower(saved[id].doi) = d
         IN /\ Cardinality({id \in DOMAIN saved : HasDoi(id)}) = 1
            /\ Cardinality({i \in DOMAIN lastOp.discovered :
                              HasDoi(lastOp.discovered[i])}) = 1
            /\ lastOp.added >= 1
            /\ \E i \in DOMAIN lastOp.merged :
                 /\ HasDoi(lastOp.merged[i])
                 /\ saved[lastOp.merged[i]].observation_count >= 2

\* C7. No self-rediscovery: a candidate that duplicates a paper already in
\* the store is not added again; it is merged (the existing paper's
\* observation_count goes up by 1 and the paper is in the merged list).
C7_PresentCandidateMerged ==
  \A r \in run.log : r.dup => r.outcome = "merged"

\* C8. Merge monotonicity: observation_count of every paper, in every copy
\* the store holds, is at least 1 and never decreases, and the value last
\* saved is 1 + the number of merges into the paper.
C8_MergeMonotone ==
  /\ [](/\ \A id \in DOMAIN saved :
             saved[id].observation_count = 1 + MergesOf(id)
        /\ \A i \in DOMAIN cache : cache[i].observation_count >= 1
        /\ \A id \in DOMAIN disk : disk[id].observation_count >= 1)
  /\ [][/\ \A id \in DOMAIN saved :
             saved'[id].observation_count >= saved[id].observation_count
        /\ \A id \in DOMAIN disk :
             disk'[id].observation_count >= disk[id].observation_count
        /\ \A i \in DOMAIN cache :
             \A j \in DOMAIN cache' :
               cache'[j].id = cache[i].id
                 => cache'[j].observation_count >= cache[i].observation_count
       ]_vars

\* C8 witness: two merges into one paper, now at observation_count 3
C8_MergedTwice ==
  \E id \in DOMAIN saved :
    /\ MergesOf(id) = 2
    /\ saved[id].observation_count = 3
    /\ id \in DOMAIN disk
    /\ disk[id].observation_count = 3

\* C9. A merge changes on the existing paper only observation_count and
\* those of doi, abstract, year, citation_count that were null (a year or
\* citation_count of 0 is not null); id, title, status, exclusion_type,
\* source and snowball_iteration stay as they were.
C9_MergeFrame ==
  [][pc = "expand"
       => \A i \in DOMAIN cache :
            LET o == cache[i]
                n == cache'[i]
            IN /\ o.doi /= Null => n.doi = o.doi
               /\ o.abstract /= Null => n.abstract = o.abstract
               /\ o.year /= NoneInt => n.year = o.year
               /\ o.citation_count /= NoneInt
                    => n.citation_count = o.citation_count
               /\ n.id = o.id
               /\ n.title = o.title
               /\ n.status = o.status
               /\ n.exclusion_type = o.exclusion_type
               /\ n.source = o.source
               /\ n.snowball_iteration = o.snowball_iteration]_vars

\* C10. Every candidate that is new (unknown to the index, no duplicate in
\* the store) becomes a newly discovered paper of generation N + 1 whose
\* source is BACKWARD or FORWARD and whose source_paper_ids hold the id of a
\* source paper of the run.
C10_NewPaperStamped ==
  \A r \in run.log :
    (~r.indexed /\ ~r.dup)
      => /\ run.discovered /= <<>>
         /\ \A i \in DOMAIN run.discovered :
              LET p == run.discovered[i]
              IN /\ p.snowball_iteration = run.next_iter
                 /\ p.source \in {BACKWARD, FORWARD}
                 /\ \E j \in DOMAIN run.frontier :
                      run.frontier[j] \in SeqToSet(p.source_paper_ids)

C12_DiscoveredFilteredAndSaved ==
  [][(pc = "filter" /\ pc' = "idle") =>
       LET new == DOMAIN saved' \ DOMAIN saved
       IN /\ (\E r \in run.log : ~r.indexed /\ ~r.dup) => new /= {}
          /\ \A id \in new :
               \/ /\ saved'[id].status = PENDING
                  /\ saved'[id].exclusion_type = Null
               \/ /\ saved'[id].status = EXCLUDED
                  /\ saved'[id].exclusion_type = AUTO]_vars

\* the papers a run started now is to expand, by the statuses last saved:
\* at generation 0 the seeds that are not EXCLUDED, later the INCLUDED papers
\* of the current generation
EligibleFrontier ==
  IF project.current_iteration = 0
  THEN {id \in SeqToSet(project.seed_paper_ids) :
          id \in DOMAIN saved => saved[id].status /= EXCLUDED}
  ELSE {id \in DOMAIN saved :
          /\ saved[id].snowball_iteration = project.current_iteration
          /\ saved[id].status = INCLUDED}

\* C13. Frontier selection: a run that starts querying the providers does so
\* for exactly the eligible papers (at current_iteration 0 the seeds whose
\* status is not EXCLUDED, otherwise the INCLUDED papers of generation
\* current_iteration), so no paper of a generation already consumed is
\* expanded again.
C13_FrontierIsEligible ==
  [][(pc = "idle" /\ pc' = "index") =>
       /\ SeqToSet(run'.frontier) = EligibleFrontier
       /\ \A id \in SeqToSet(run'.frontier) :
            saved[id].snowball_iteration = project.current_iteration]_vars

C15_GateImpliesFrontier ==
  pc = "idle" =>
    \A st \in load_all_papers(Store, disk) :
      (/\ \A id \in DOMAIN saved :
            CacheHas(st.cache, id) /\ CacheGet(st.cache, id) = saved[id]
       /\ can_start_iteration(st.cache, project).ok)
        => EligibleFrontier /= {}

\* C16. Exclusion invariant: every paper of the store (the value last
\* saved, its copy in the cache and its file) has exclusion_type AUTO or
\* MANUAL when its status is EXCLUDED and no exclusion_type otherwise.
C16_ExclusionTypeMatchesStatus ==
  LET Ok(p) == IF p.status = EXCLUDED THEN p.exclusion_type \in {AUTO, MANUAL}
               ELSE p.exclusion_type = Null
  IN /\ \A id \in DOMAIN saved : Ok(saved[id])
     /\ \A i \in DOMAIN cache : Ok(cache[i])
     /\ \A id \in DOMAIN disk : Ok(disk[id])

\* ------------------------------------------------ a kill during a write
\* SpecCrash looks inside _write_paper_to_disk, which Spec takes as one step:
\* open(paper_file, 'w') truncates the file, json.dump then fills it, and the
\* process may be killed between the two.

\* a paper file that was opened for writing and not yet filled: json.load
\* raises on it
Torn == [torn |-> TRUE]

\* paper = queue.get(); open(paper_file, 'w'). The entry stays counted as
\* unfinished until task_done.
WriterOpen ==
  /\ ~killed
  /\ wpc = "get"
  /\ queue /= <<>>
  /\ disk' = (Head(queue).id :> Torn) @@ disk
  /\ wpc' = "writing"
  /\ UNCHANGED <<project, projectFile, cacheOn, cache, queue, shutdown_flag,
                 pc, run, nextId, saved, merges, reviews, lastOp, killed,
                 landed, cmp, rev>>

\* json.dump(...), the file is closed; task_done()
WriterDump ==
  /\ ~killed
  /\ wpc = "writing"
  /\ LET p == EntryPaper(Head(queue))
     IN /\ disk' = WriteToDisk(disk, p)
        /\ landed' = (p.id :> p) @@ landed
  /\ queue' = Tail(queue)
  /\ wpc' = AfterLoopTest
  /\ UNCHANGED <<project, projectFile, cacheOn, cache, shutdown_flag, pc, run,
                 nextId, saved, merges, reviews, lastOp, killed, cmp,
                 rev>>

\* the process is killed: both threads stop where they are
Kill ==
  /\ ~killed
  /\ killed' = TRUE
  /\ UNCHANGED <<project, projectFile, cacheOn, cache, queue, disk,
                 shutdown_flag, wpc, pc, run, nextId, saved, merges, reviews,
                 lastOp, landed, cmp, rev>>

CrashAddSeed ==
  /\ ~killed
  /\ \E k \in DOMAIN SeedPool : AddSeed(k)

\* update_paper_status on a paper whose file is not being written (load_paper
\* raises on a torn file and the call changes nothing)
CrashUpdatePaperStatus ==
  /\ ~killed
  /\ \E id \in KnownIds, status \in PaperStatus :
       /\ id \in DOMAIN disk => disk[id] /= Torn
       /\ UpdatePaperStatus(id, status)

NextCrash ==
  \/ CrashAddSeed
  \/ CrashUpdatePaperStatus
  \/ WriterOpen
  \/ WriterDump
  \/ Kill

SpecCrash == Init /\ [][NextCrash]_vars

\* C17. Crash safety of landed writes: after a kill, every paper whose
\* record had been written completely before the kill has a file that holds
\* that record, intact.
C17_LandedSurvivesKill ==
  killed =>
    \A id \in DOMAIN landed :
      id \in DOMAIN disk /\ disk[id] /= Torn /\ disk[id] = landed[id]

\* ------------------------------------------- the duplicate predicate alone
\* SpecDup: two papers are drawn and papers_are_duplicates is called on them.
DoiPool == {Null, "10.1/a", "10.1/A", "10.1/c"}

\* "1v1", "1V2", "xv:1", "xv:2" as characters (and no arXiv id)
ArxivPool ==
  {<<>>, <<"1", "v", "1">>, <<"1", "V", "2">>, <<"x", "v", ":", "1">>,
   <<"x", "v", ":", "2">>}

TitlePool == {<<>>, <<"The">>, <<"Deep", "Nets">>}

\* no authors; one author whose name is the empty string; "John Smith"
AuthorsPool == {<<>>, << <<>> >>, << <<"John", "Smith">> >>}

YearPool == {NoneInt, 2021}

\* papers that differ in their identifiers
IdPool ==
  {Bib(d, x, t, au, y, Null, NoneInt) :
     d \in DoiPool, x \in ArxivPool, t \in TitlePool, au \in AuthorsPool,
     y \in YearPool}

\* titles at similarity 1 ("Deep Nets", "The deep nets") and 2/3 ("Deep Nets
\* new"), one of stopwords only, none
FuzzyTitlePool ==
  {<<>>, <<"The">>, <<"Deep", "Nets">>, <<"The", "deep", "nets">>,
   <<"Deep", "Nets", "new">>}

\* author lists at similarity 1/3 and 1/4 with "John Smith" alone
FuzzyAuthorsPool ==
  {<<>>, << <<>> >>, << <<"John", "Smith">> >>,
   << <<"Smith", ",", "J">>, <<"Lee">>, <<"kim">> >>,
   << <<"Smith">>, <<"Lee">>, <<"kim">>, <<"wu">> >>}

FuzzyYearPool == {NoneInt, 0, 2021, 2022, 2023}

\* papers that differ in title, authors and year: with no identifier, with
\* a DOI only, with an arXiv id only
FuzzyPool ==
  {Bib(ids[1], ids[2], t, au, y, Null, NoneInt) :
     ids \in {<<Null, <<>> >>, <<"10.1/a", <<>> >>,
              <<Null, <<"1", "v", "1">> >>},
     t \in FuzzyTitlePool, au \in FuzzyAuthorsPool, y \in FuzzyYearPool}

DupPool == IdPool \cup FuzzyPool

InitDup ==
  /\ InitEngine
  /\ cmp \in [a : DupPool, b : DupPool, res : {<<>>}]

\* papers_are_duplicates(cmp.a, cmp.b) is called and returns
CallPapersAreDuplicates ==
  /\ cmp.res = <<>>
  /\ cmp' = [cmp EXCEPT !.res = <<papers_are_duplicates(cmp.a, cmp.b)>>]
  /\ UNCHANGED <<project, projectFile, cacheOn, cache, queue, disk,
                 shutdown_flag, wpc, pc, run, nextId, saved, merges, reviews,
                 lastOp, killed, landed, rev>>

NextDup == CallPapersAreDuplicates

SpecDup == InitDup /\ [][NextDup]_vars

\* C18. DOI veto: when both papers have a DOI the answer is True if and only
\* if the DOIs are equal without regard to case, whatever the titles and the
\* arXiv ids.
C18_DoiDecides ==
  (cmp.res /= <<>> /\ TruthyStr(cmp.a.doi) /\ TruthyStr(cmp.b.doi))
    => cmp.res[1] = (Lower(cmp.a.doi) = Lower(cmp.b.doi))

\* C18, the case: two papers with different DOIs, the same non-empty title
\* and equal arXiv ids were compared, and the answer was False.
C18_DifferentDoiSameTitle ==
  /\ cmp.res = <<FALSE>>
  /\ TruthyStr(cmp.a.doi) /\ TruthyStr(cmp.b.doi)
  /\ Lower(cmp.a.doi) /= Lower(cmp.b.doi)
  /\ cmp.a.title /= <<>> /\ cmp.a.title = cmp.b.title
  /\ cmp.a.arxiv_id /= <<>> /\ cmp.a.arxiv_id = cmp.b.arxiv_id

\* C19. arXiv rule: when the DOI rule does not decide (not both papers have
\* a DOI) and both papers have an arXiv id, the answer is True exactly when
\* the ids are equal after lower-casing and removing a version suffix (a
\* final "v" followed by digits only), whatever the titles.
C19_ArxivDecides ==
  LET Digits == {"0", "1", "2", "3", "4", "5", "6", "7", "8", "9"}
      Strip(id) ==
        LET l == LowerSeq(id)
            K == {k \in 1..(Len(l) - 1) :
                    /\ l[k] = "v"
                    /\ \A j \in (k + 1)..Len(l) : l[j] \in Digits}
        IN IF K = {} THEN l ELSE SubSeq(l, 1, (CHOOSE k \in K : TRUE) - 1)
  IN (/\ cmp.res /= <<>>
      /\ ~(TruthyStr(cmp.a.doi) /\ TruthyStr(cmp.b.doi))
      /\ cmp.a.arxiv_id /= <<>>
      /\ cmp.b.arxiv_id /= <<>>)
       => cmp.res[1] = (Strip(cmp.a.arxiv_id) = Strip(cmp.b.arxiv_id))

\* C20. Reflexivity: a paper with a non-empty title, compared with itself, is
\* a duplicate, whatever its authors, year, DOI and arXiv id.
C20_Reflexive ==
  (cmp.res /= <<>> /\ cmp.a = cmp.b /\ cmp.a.title /= <<>>)
    => cmp.res = <<TRUE>>

\* C21. Symmetry: the answer for (a, b) is the answer for (b, a).
C21_Symmetric ==
  cmp.res /= <<>> => cmp.res[1] = papers_are_duplicates(cmp.b, cmp.a)

\* C21, the case: two papers that differ in every field the rules read (one
\* with a DOI and one without, different years and author lists) were
\* compared and found duplicates.
C21_DifferentPapersCompared ==
  /\ cmp.res = <<TRUE>>
  /\ TruthyStr(cmp.a.doi) /\ ~TruthyStr(cmp.b.doi)
  /\ cmp.a.title /= cmp.b.title
  /\ TruthyInt(cmp.a.year) /\ TruthyInt(cmp.b.year)
  /\ cmp.a.year < cmp.b.year
  /\ Len(cmp.a.authors) = 1 /\ Len(cmp.b.authors) = 3

\* C22. A paper with an empty title is never a duplicate: when the title of
\* either paper is empty the answer is False, whatever the DOIs, arXiv ids,
\* years and authors.
C22_EmptyTitleNeverDuplicate ==
  (cmp.res /= <<>> /\ (cmp.a.title = <<>> \/ cmp.b.title = <<>>))
    => cmp.res = <<FALSE>>

C23_SeedAddition ==
  [][/\ (lastOp'.op = "seed" /\ lastOp'.seed = 0 /\ lastOp' /= lastOp) =>
          UNCHANGED <<project, projectFile, cacheOn, cache, queue, disk,
                      saved, nextId, merges, pc, run>>
     /\ (lastOp'.op = "seed" /\ lastOp'.seed /= 0 /\ nextId' /= nextId) =>
          LET id == lastOp'.seed
              ids == project'.seed_paper_ids
          IN /\ id \notin DOMAIN saved
             /\ id \in DOMAIN saved'
             /\ saved'[id].source = SEED
             /\ saved'[id].snowball_iteration = 0
             /\ Cardinality({i \in DOMAIN ids : ids[i] = id}) = 1
             /\ \A i \in DOMAIN project.seed_paper_ids :
                  ids[i] = project.seed_paper_ids[i]
             /\ projectFile' = <<project'>>
             /\ \E k \in DOMAIN queue' : queue'[k].id = id]_vars

\* C23, the case: a seed addition has just returned None in a project that
\* has a seed already, whose paper is as it was saved.
C23_FailedAfterSeed ==
  /\ lastOp.op = "seed"
  /\ lastOp.seed = 0
  /\ project.seed_paper_ids /= <<>>
  /\ \A i \in DOMAIN project.seed_paper_ids :
       project.seed_paper_ids[i] \in DOMAIN saved

\* ------------------------------------------------- reviews of a generation
\* SpecReview: a project after its first run, with generation 1 holding
\* papers as the last part of a run stores them (lines 244-262: PENDING, or
\* EXCLUDED with exclusion_type AUTO, and the statistics of the run), all of
\* them written and in the cache; the reviewer then decides on them through
\* update_paper_review with the project supplied.
MaxGenPapers == 2

\* a paper of generation 1 as lines 244-252 store it
FilteredPaper(id, rejected) ==
  LET p == [NewPaper(id, CandPool[4], BACKWARD) EXCEPT
              !.snowball_iteration = 1]
  IN IF rejected
     THEN [p EXCEPT !.status = EXCLUDED, !.exclusion_type = AUTO]
     ELSE p

InitReview ==
  \E rej \in [1..MaxGenPapers -> BOOLEAN] :
    LET seed == [NewPaper(1, SeedPool[1], SEED) EXCEPT !.status = INCLUDED]
        papers == <<seed>> \o
                  [i \in 1..MaxGenPapers |-> FilteredPaper(i + 1, rej[i])]
        auto == Cardinality({i \in 1..MaxGenPapers : rej[i]})
    IN /\ project =
            [seed_paper_ids |-> <<1>>, current_iteration |-> 1,
             iteration_stats |->
               (1 :> NewIterationStats(MaxGenPapers, MaxGenPapers, 0, auto,
                                       MaxGenPapers - auto))]
       /\ projectFile = <<project>>
       /\ cacheOn = TRUE
       /\ cache = papers
       /\ queue = <<>>
       /\ disk = papers
       /\ saved = papers
       /\ nextId = MaxGenPapers + 2
       /\ shutdown_flag = FALSE
       /\ wpc = "get"
       /\ pc = "idle"
       /\ run = NoRun
       /\ merges = <<>>
       /\ lastOp = NoOp
       /\ reviews = 0
       /\ killed = FALSE
       /\ landed = <<>>
       /\ cmp = NoCmp
       /\ rev = NoRev

ReviewWithProject ==
  \E id \in KnownIds, status \in PaperStatus :
    UpdatePaperReview(id, status, TRUE)

NextReview ==
  \/ ReviewWithProject
  \/ WriterWrite

SpecReview == InitReview /\ [][NextReview]_vars

\* the papers of generation 1, by the values last saved
Gen1 == {id \in DOMAIN saved : saved[id].snowball_iteration = 1}

ReviewAssignStatus(id, status) ==
  /\ pc = "idle"
  /\ reviews < MaxReviews
  /\ cacheOn /\ CacheHas(cache, id)
  /\ cache' = CachePut(cache, [CacheGet(cache, id) EXCEPT !.status = status])
  /\ rev' = [rev EXCEPT !.id = id]
  /\ reviews' = reviews + 1
  /\ pc' = "review"
  /\ UNCHANGED <<project, projectFile, cacheOn, queue, disk, shutdown_flag,
                 wpc, run, nextId, saved, merges, lastOp, killed, landed, cmp>>

\* lines 429-435: the exclusion_type that goes with the status; save_paper
ReviewSave ==
  /\ pc = "review"
  /\ LET paper == CacheGet(cache, rev.id)
         p2 == ReviewPaper(paper, paper.status)
         st == save_paper(Store, p2)
     IN /\ Len(st.queue) <= MaxQueue
        /\ SetStore(st)
        /\ rev' = [id |-> 0, ever |-> rev.ever \cup {p2}]
  /\ pc' = "idle"
  /\ lastOp' = NoOp
  /\ UNCHANGED <<project, projectFile, disk, shutdown_flag, wpc, run, nextId,
                 merges, reviews, killed, landed, cmp>>

ReviewBegins ==
  \E id \in KnownIds, status \in PaperStatus : ReviewAssignStatus(id, status)

NextRace ==
  \/ ReviewBegins
  \/ ReviewSave
  \/ WriterWrite
  \/ Flush

SpecRace == InitReview /\ [][NextRace]_vars

\* the records the store of InitReview starts with, each passed to
\* save_paper by the run that stored it
InitialPapers ==
  {[NewPaper(1, SeedPool[1], SEED) EXCEPT !.status = INCLUDED]} \cup
  {FilteredPaper(i + 1, r) : i \in 1..MaxGenPapers, r \in BOOLEAN}

\* C27. Serialized writes: every record on disk is a value that was passed
\* to some save_paper call (never a partially applied update), and right
\* after flush() has returned the record of every id is the value passed to
\* the most recent save_paper call for that id.
C27_DiskHoldsSavedValues ==
  /\ \A id \in DOMAIN disk : disk[id] \in (rev.ever \cup InitialPapers)
  /\ lastOp.op = "flush" => \A id \in DOMAIN saved : disk[id] = saved[id]

\* ------------------------------------------------- flush() as call and return
\* SpecFlush separates the call of flush() from its return, so that a
\* flush that waits forever is a behaviour: pc is "flush" while the caller
\* is inside queue.join(), "shutdown" while it is inside the flush() of
\* shutdown(). The writer thread and a caller whose join can return are
\* scheduled fairly.
MaxSaves == 3

\* storage.save_paper(paper), on a store in any state of its life
FlushSavePaper(k) ==
  /\ pc = "idle"
  /\ nextId <= MaxSaves
  /\ SetStore(save_paper(Store, NewPaper(nextId, SeedPool[k], SEED)))
  /\ nextId' = nextId + 1
  /\ lastOp' = NoOp
  /\ UNCHANGED <<reviews, project, projectFile, disk, shutdown_flag, wpc, pc,
                 run, merges>>
  /\ UNCHANGED aside

\* flush() is called (by the program, or by the atexit hook of line 47)
FlushCall ==
  /\ pc = "idle"
  /\ pc' = "flush"
  /\ lastOp' = NoOp
  /\ UNCHANGED <<reviews, project, projectFile, cacheOn, cache, queue, disk,
                 shutdown_flag, wpc, run, nextId, saved, merges>>
  /\ UNCHANGED aside

\* self._write_queue.join() returns
FlushReturn ==
  /\ pc = "flush"
  /\ JoinReturns(queue)
  /\ pc' = "idle"
  /\ lastOp' = [NoOp EXCEPT !.op = "flush"]
  /\ UNCHANGED <<reviews, project, projectFile, cacheOn, cache, queue, disk,
                 shutdown_flag, wpc, run, nextId, saved, merges>>
  /\ UNCHANGED aside

\* shutdown() is called: it starts with self.flush()
ShutdownCall ==
  /\ pc = "idle"
  /\ pc' = "shutdown"
  /\ lastOp' = NoOp
  /\ UNCHANGED <<reviews, project, projectFile, cacheOn, cache, queue, disk,
                 shutdown_flag, wpc, run, nextId, saved, merges>>
  /\ UNCHANGED aside

\* the flush() of shutdown() returns; _shutdown_flag.set(); the join of the
\* writer thread has a timeout
ShutdownReturn ==
  /\ pc = "shutdown"
  /\ JoinReturns(queue)
  /\ shutdown_flag' = TRUE
  /\ pc' = "idle"
  /\ UNCHANGED <<reviews, project, projectFile, cacheOn, cache, queue, disk,
                 wpc, run, nextId, saved, merges, lastOp>>
  /\ UNCHANGED aside

NextFlush ==
  \/ \E k \in DOMAIN SeedPool : FlushSavePaper(k)
  \/ FlushCall
  \/ FlushReturn
  \/ ShutdownCall
  \/ ShutdownReturn
  \/ WriterWrite
  \/ WriterTimeout

SpecFlush ==
  /\ Init
  /\ [][NextFlush]_vars
  /\ WF_vars(WriterWrite)
  /\ WF_vars(WriterTimeout)
  /\ WF_vars(FlushReturn)
  /\ WF_vars(ShutdownReturn)

\* C28. Termination of flush: whatever save_paper, flush and shutdown calls
\* were made on the store, and with the writer thread scheduled fairly, a
\* flush() that was called eventually returns, also when it is called after
\* shutdown() has stopped the writer.
C28_FlushReturns == (pc = "flush") ~> (pc = "idle")

\* ------------------------------------------------ a run over two seed papers
\* SpecMerge: a new process opens a project with two seed papers that are
\* no duplicates of each other, both written: one added from a PDF without
\* DOI, one added by its DOI. The providers answer from CandPool, whose
\* fourth paper carries the DOI of the second seed and the title of the
\* first.
MergeSeedPool ==
  <<Bib(Null, <<>>, <<"new", "paper">>, <<>>, 2019, Null, NoneInt),
    Bib("10.1/c", <<>>, <<"graph", "theory">>, <<>>, NoneInt, Null, NoneInt)>>

InitMerge ==
  \E status \in [DOMAIN MergeSeedPool -> {PENDING, INCLUDED}] :
    LET papers == [k \in DOMAIN MergeSeedPool |->
                     [NewPaper(k, MergeSeedPool[k], SEED) EXCEPT
                        !.status = status[k]]]
    IN /\ project = [NewProject EXCEPT
                       !.seed_paper_ids = [k \in DOMAIN papers |-> k]]
       /\ projectFile = save_project(project)
       /\ cacheOn = FALSE
       /\ cache = <<>>
       /\ queue = <<>>
       /\ disk = papers
       /\ saved = papers
       /\ nextId = Len(papers) + 1
       /\ shutdown_flag = FALSE
       /\ wpc = "get"
       /\ pc = "idle"
       /\ run = NoRun
       /\ merges = <<>>
       /\ lastOp = NoOp
       /\ reviews = 0
       /\ killed = FALSE
       /\ landed = <<>>
       /\ cmp = NoCmp
       /\ rev = NoRev

\* a provider call of SpecMerge: it fails, or returns at most one candidate
MergeResponses == SeqsUpTo(DOMAIN CandPool, 1) \cup {ProviderFails}

NextMerge ==
  \/ \E direction \in {"backward", "forward", "both"} : RunSelect(direction)
  \/ RunIndex
  \/ \E resp \in MergeResponses : RunExpand(resp)
  \/ RunFilter
  \/ WriterWrite

SpecMerge == InitMerge /\ [][NextMerge]_vars

\* C29. No duplicate after a run: run_snowball_iteration adds no paper that
\* is a duplicate of a paper of the store or of another paper of the same
\* run, so a store in which no two distinct papers are duplicates of each
\* other before a run has no two such papers after it.
C29_NoDuplicatesAfterRun ==
  \A i, j \in DOMAIN saved :
    i /= j => ~papers_are_duplicates(saved[i], saved[j])

\* C30. Project and papers agree on disk: while project.json shows
\* current_iteration N >= 1 with iteration_stats[N].discovered = k after a
\* run has returned, k paper records of generation N are on disk and every
\* frontier paper of that run is on disk with status INCLUDED, so a kill at
\* that instant leaves no advanced counter without its papers.
C30_DiskMatchesProjectFile ==
  (lastOp.op = "run" /\ projectFile /= <<>>
     /\ projectFile[1].current_iteration >= 1)
    => LET N == projectFile[1].current_iteration
           k == projectFile[1].iteration_stats[N].discovered
       IN /\ Cardinality({id \in DOMAIN disk :
                            disk[id].snowball_iteration = N}) = k
          /\ \A i \in DOMAIN lastOp.frontier :
               /\ lastOp.frontier[i] \in DOMAIN disk
               /\ disk[lastOp.frontier[i]].status = INCLUDED

====
